---- MODULE Spec2Model ----
(***************************************************************************)
(* A model of bambi's PriorScaler (src/bambi/priors/scaler.py): the        *)
(* automatic scaling of the priors of a regression model.                  *)
(*                                                                         *)
(* Numbers.  The scaler computes with means, standard deviations and       *)
(* their products, quotients and root-sum-squares.  The model keeps every  *)
(* quantity exact:                                                         *)
(*   - a location (a mean, a mu) is a rational [n, d], d > 0, in lowest    *)
(*     terms;                                                              *)
(*   - a scale (a standard deviation, a sigma) is the square root of an    *)
(*     extended non-negative rational, written [sq |-> q]: q is a          *)
(*     rational, or Inf = [n |-> 1, d |-> 0], or NaN = [n |-> 0, d |-> 0], *)
(*     the two values IEEE arithmetic gives for x/0 and 0/0.               *)
(* A prior parameter is [shape, v]: a scalar is a one-element v.           *)
(***************************************************************************)
EXTENDS Integers, Sequences, FiniteSets, TLC

\* ------------------------------------------------------------------ bounds
\* Number of observations (rows of the response and of every design column).
NObs == 5
\* Largest number of common terms of a model.
MaxCommon == 2
\* Largest number of group-specific terms of a model.
MaxGroup == 1
\* Number of calls of scale() on one PriorScaler.
MaxCalls == 2

\* -------------------------------------------------------------- arithmetic
RECURSIVE GCD(_, _)
GCD(a, b) == IF b = 0 THEN a ELSE GCD(b, a % b)

Abs(x) == IF x < 0 THEN -x ELSE x

Inf == [n |-> 1, d |-> 0]
NaN == [n |-> 0, d |-> 0]

\* The rational n/d in lowest terms (d >= 0; d = 0 gives Inf or NaN).
Rat(n, d) ==
    IF d = 0 THEN (IF n = 0 THEN NaN ELSE Inf)
    ELSE LET g == GCD(Abs(n), d) IN [n |-> n \div g, d |-> d \div g]

Zero == Rat(0, 1)
One == Rat(1, 1)

IsFinite(q) == q.d # 0

\* IEEE sum, product and quotient of extended non-negative rationals.
RAdd(a, b) ==
    IF a = NaN \/ b = NaN THEN NaN
    ELSE IF a = Inf \/ b = Inf THEN Inf
    ELSE LET g == GCD(a.d, b.d)
         IN Rat(a.n * (b.d \div g) + b.n * (a.d \div g), (a.d \div g) * b.d)

RMul(a, b) ==
    IF a = NaN \/ b = NaN THEN NaN
    ELSE IF a = Inf \/ b = Inf
         THEN (IF a.n = 0 \/ b.n = 0 THEN NaN ELSE Inf)
    ELSE Rat(a.n * b.n, a.d * b.d)

RDiv(a, b) ==
    IF a = NaN \/ b = NaN THEN NaN
    ELSE IF b = Inf THEN (IF a = Inf THEN NaN ELSE Zero)
    ELSE IF a = Inf THEN Inf
    ELSE Rat(a.n * b.d, a.d * b.n)

\* A scale: the square root of q.
Sqrt(q) == [sq |-> q]
\* x ** 2 and x ** 0.5
Square(x) == x.sq
Pow05(q) == Sqrt(q)
\* Product and quotient of two scales.
SMul(x, y) == Sqrt(RMul(x.sq, y.sq))
SDiv(x, y) == Sqrt(RDiv(x.sq, y.sq))

\* Parameters: a scalar or a vector of numbers.
Scalar(x) == [shape |-> "scalar", v |-> <<x>>]
Vector(xs) == [shape |-> "vector", v |-> xs]

\* ------------------------------------------------------------------- numpy
RECURSIVE SumSeq(_)
SumSeq(s) == IF s = <<>> THEN 0 ELSE Head(s) + SumSeq(Tail(s))

\* np.mean of a column of integers
np_mean(x) == Rat(SumSeq(x), Len(x))

\* np.std of a column of integers (population standard deviation)
np_std(x) ==
    LET n == Len(x)
        s == SumSeq(x)
        ss == SumSeq([i \in 1..n |-> x[i] * x[i]])
    IN Sqrt(Rat(n * ss - s * s, n * n))

\* np.sum(data, axis=1): the row sums of a matrix given by its columns
np_sum_axis1(data) ==
    [r \in 1..Len(data[1]) |-> SumSeq([c \in 1..Len(data) |-> data[c][r]])]

\* len(np.unique(x))
np_unique_len(x) == Cardinality({x[i] : i \in 1..Len(x)})

\* Python's round-half-to-even of the rational n/d (d > 0) to an integer
RoundHalfEven(n, d) ==
    LET fl == n \div d
        r2 == 2 * (n - fl * d)
    IN IF r2 < d THEN fl
       ELSE IF r2 > d THEN fl + 1
       ELSE IF fl % 2 = 0 THEN fl ELSE fl + 1

\* Mutant for C6: the linspace leaves its endpoint out (step 4/num).
np_round_linspace_open(num) ==
    [i \in 1..num |-> Rat(RoundHalfEven(-200 * num + (i - 1) * 400, num), 100)]

\* np.round(np.linspace(-2, 2, num), 2)
np_round_linspace(num) ==
    [i \in 1..num |->
        IF num = 1 THEN Rat(-2, 1)
        ELSE Rat(RoundHalfEven(-200 * (num - 1) + (i - 1) * 400, num - 1), 100)]

\* np.zeros(n)
np_zeros(n) == [i \in 1..n |-> Zero]

\* Mutant for C3: every parameter contributes its first entry only.
RECURSIVE np_hstack_first(_)
np_hstack_first(ps) ==
    IF ps = <<>> THEN <<>> ELSE <<Head(ps).v[1]>> \o np_hstack_first(Tail(ps))

\* np.hstack of a sequence of parameters
RECURSIVE np_hstack(_)
np_hstack(ps) == IF ps = <<>> THEN <<>> ELSE Head(ps).v \o np_hstack(Tail(ps))

\* np.dot of two vectors of extended rationals
RECURSIVE np_dot(_, _)
np_dot(a, b) ==
    IF a = <<>> \/ b = <<>> THEN Zero
    ELSE RAdd(RMul(Head(a), Head(b)), np_dot(Tail(a), Tail(b)))

\* np.squeeze(np.atleast_1d(p))
np_squeeze(p) == IF Len(p.v) = 1 THEN Scalar(p.v[1]) ELSE Vector(p.v)

\* ------------------------------------------------------------------ priors
\* A bambi Prior object: its distribution name, its auto_scale attribute and
\* its arguments.  transform is "ordered" or "none".
Prior(name, auto_scale, mu, sigma) ==
    [kind |-> "Prior", name |-> name, auto_scale |-> auto_scale,
     mu |-> mu, sigma |-> sigma, nu |-> 0, transform |-> "none"]

\* A prior given as a plain number: it has no auto_scale, name or args.
ScalarPrior ==
    [kind |-> "scalar", name |-> "none", auto_scale |-> FALSE,
     mu |-> Scalar(Rat(7, 1)), sigma |-> Scalar(Sqrt(Rat(49, 1))),
     nu |-> 0, transform |-> "none"]

\* hasattr(prior, "auto_scale")
hasattr_auto_scale(prior) == prior.kind = "Prior"

\* A prior as the user (or the model's defaults) set it, before scaling.
UserPrior(name, auto_scale) ==
    Prior(name, auto_scale, Scalar(Rat(7, 1)), Scalar(Sqrt(Rat(49, 1))))

\* Mutant for C1: the guard on the prior's family is gone.
name_differs_never(prior, expected) == FALSE

\* prior.name != expected, the guard that opens every scaling routine
name_differs(prior, expected) == prior.name # expected

\* Prior.update(mu=..., sigma=...)
update(prior, mu, sigma) == [prior EXCEPT !.mu = mu, !.sigma = sigma]

\* Prior.update(sigma=...)
update_sigma(prior, sigma) == [prior EXCEPT !.sigma = sigma]

\* -------------------------------------------------------------------- data
Rows == 1..NObs

colLinear == [i \in Rows |-> i]
colSquare == [i \in Rows |-> (i - 3) * (i - 3)]
colConst == [i \in Rows |-> 2]
colDummy == [i \in Rows |-> i % 2]
colDummyC == [i \in Rows |-> 1 - (i % 2)]
colDummyLinear == [i \in Rows |-> (i % 2) * i]
colDummyCLinear == [i \in Rows |-> (1 - (i % 2)) * i]

\* A response with K distinct values 0..K-1 (0/1 for K = 2).
Response(K) == [i \in Rows |-> (i - 1) % K]

\* The design data of a common term: kind, categorical flag, the kinds of an
\* interaction's components, ndim and the columns (data.T).
TermData(kind, categorical, components, ndim, data) ==
    [kind |-> kind, categorical |-> categorical, components |-> components,
     ndim |-> ndim, data |-> data]

NumericLinear == TermData("numeric", FALSE, <<>>, 1, <<colLinear>>)

CommonTemplates ==
    { NumericLinear,
      TermData("numeric", FALSE, <<>>, 1, <<colConst>>),
      TermData("numeric", FALSE, <<>>, 2, <<colLinear, colSquare>>),
      TermData("categoric", TRUE, <<>>, 1, <<colDummy>>),
      TermData("categoric", TRUE, <<>>, 2, <<colDummy, colDummyC>>),
      TermData("interaction", FALSE, <<"categoric", "categoric">>, 1, <<colDummy>>),
      TermData("interaction", FALSE, <<"categoric", "categoric">>, 2,
               <<colDummy, colDummyC>>),
      TermData("interaction", FALSE, <<"categoric", "numeric">>, 1, <<colDummyLinear>>),
      TermData("interaction", FALSE, <<"categoric", "numeric">>, 2,
               <<colDummyLinear, colDummyCLinear>>) }

CommonPriors ==
    { UserPrior("Normal", TRUE), UserPrior("Normal", FALSE),
      UserPrior("Cauchy", TRUE), ScalarPrior }

\* A common term: the design data and the prior.
CommonTerm(t, prior) ==
    [kind |-> t.kind, categorical |-> t.categorical, components |-> t.components,
     ndim |-> t.ndim, data |-> t.data, prior |-> prior]

\* A group-specific term: its kind, its predictor (ndim and columns), its
\* prior and prior.args["sigma"], the hyperprior of its scale.
GroupTerm(kind, ndim, predictor, prior, prior_sigma) ==
    [kind |-> kind, ndim |-> ndim, predictor |-> predictor,
     prior |-> prior, prior_sigma |-> prior_sigma]

GroupData ==
    { <<"intercept", 1, <<[i \in Rows |-> 1]>> >>,
      <<"numeric", 1, <<colLinear>> >>,
      <<"numeric", 1, <<colConst>> >>,
      <<"numeric", 2, <<colLinear, colSquare>> >> }

\* A component of the model: constant (a ConstantComponent) or not, and its prior.
Component(constant, prior) == [constant |-> constant, prior |-> prior]

ComponentOptions ==
    { Component(TRUE, UserPrior("HalfStudentT", TRUE)),
      Component(TRUE, UserPrior("HalfStudentT", FALSE)),
      Component(TRUE, ScalarPrior),
      Component(FALSE, UserPrior("HalfStudentT", TRUE)) }

Families ==
    {"Gaussian", "StudentT", "VonMises", "Bernoulli", "Binomial",
     "Cumulative", "StoppingRatio", "Poisson"}
Binary == {"Bernoulli", "Binomial"}
Links == {"logit", "probit", "cloglog"}

FamilyLinks ==
    {<<f, l>> \in Families \X (Links \cup {"identity"}) : (f \in Binary) = (l \in Links)}

\* All sequences over S of length lo..hi.
SeqsOf(S, lo, hi) == UNION {[1..n -> S] : n \in lo..hi}

\* The intercept term: absent, or present with a prior.
NoIntercept == [present |-> FALSE, prior |-> ScalarPrior]
Intercept(prior) == [present |-> TRUE, prior |-> prior]

\* A binary family has a 0/1 response (or a constant one).
Levels(f, K) == IF f \in Binary /\ K > 2 THEN 2 ELSE K

Model(fl, K, aux, threshold, intercept, common, group, ctor) ==
    [family |-> fl[1], link |-> fl[2], response |-> Response(Levels(fl[1], K)), aux |-> aux,
     threshold |-> threshold, intercept |-> intercept, common |-> common,
     group |-> group, ctor_auto_scale |-> ctor]

DefaultComponent == Component(TRUE, UserPrior("HalfStudentT", TRUE))
DefaultIntercept == Intercept(UserPrior("Normal", TRUE))

\* Models that vary the family, the link and the common terms' design data.
CommonSeqs ==
    SeqsOf({CommonTerm(t, UserPrior("Normal", TRUE)) : t \in CommonTemplates}, 0, MaxCommon)
CommonModel(fl, c) ==
    Model(fl, NObs, DefaultComponent, DefaultComponent, DefaultIntercept, c, <<>>, TRUE)

\* Models that vary the group-specific terms.
GroupFamilyLinks ==
    {<<"Gaussian", "identity">>, <<"Bernoulli", "logit">>, <<"Poisson", "identity">>}
GroupCommonSeqs ==
    SeqsOf({CommonTerm(t, UserPrior("Normal", TRUE)) :
              t \in {NumericLinear,
                     TermData("categoric", TRUE, <<>>, 2, <<colDummy, colDummyC>>)}},
           0, 1)
GroupSeqs ==
    SeqsOf({GroupTerm(d[1], d[2], d[3], UserPrior("Normal", TRUE), UserPrior(h, TRUE)) :
              d \in GroupData, h \in {"HalfNormal", "HalfCauchy"}},
           1, MaxGroup)
GroupModel(fl, c, g) ==
    Model(fl, NObs, DefaultComponent, DefaultComponent, DefaultIntercept, c, g, TRUE)

\* Models that vary the priors' names and their auto_scale attributes.
EligibilityIntercepts == {NoIntercept} \cup {Intercept(p) : p \in CommonPriors}
EligibilityCommonSeqs ==
    SeqsOf({CommonTerm(NumericLinear, p) : p \in CommonPriors}, 0, MaxCommon)
EligibilityGroupSeqs ==
    SeqsOf({ GroupTerm("numeric", 1, <<colLinear>>, ScalarPrior, ScalarPrior),
             GroupTerm("numeric", 1, <<colLinear>>, UserPrior("Normal", FALSE),
                       UserPrior("HalfNormal", TRUE)),
             GroupTerm("numeric", 1, <<colLinear>>, UserPrior("Normal", TRUE),
                       UserPrior("HalfNormal", TRUE)),
             GroupTerm("numeric", 1, <<colLinear>>, UserPrior("Normal", TRUE),
                       UserPrior("HalfCauchy", TRUE)),
             GroupTerm("numeric", 1, <<colLinear>>, UserPrior("Normal", TRUE),
                       ScalarPrior),
             GroupTerm("intercept", 1, <<[r \in Rows |-> 1]>>, UserPrior("Normal", TRUE),
                       UserPrior("HalfNormal", TRUE)) },
           0, MaxGroup)
EligibilityModel(i, c, g) ==
    Model(<<"Gaussian", "identity">>, NObs, DefaultComponent, DefaultComponent, i, c, g, TRUE)

\* Models that vary the response, the auxiliary component and the threshold.
ResponseModel(fl, k, ctor, a, t) ==
    Model(fl, k, a, t, DefaultIntercept,
          <<CommonTerm(NumericLinear, UserPrior("Normal", TRUE))>>, <<>>, ctor)

HasAux(f) == f \in {"Gaussian", "StudentT", "VonMises"}
HasThreshold(f) == f \in {"Cumulative", "StoppingRatio"}

\* ------------------------------------------------------------------- state
VARIABLES
    family,               \* model.family
    link,                 \* model.family.link["p"].name
    response,             \* response_component.term.data
    response_mean,        \* PriorScaler.response_mean
    response_std,         \* PriorScaler.response_std
    aux,                  \* model.components["sigma"] (or ["kappa"])
    threshold,            \* model.components["threshold"]
    intercept_term,       \* parent_component.intercept_term
    common_terms,         \* parent_component.common_terms.values(), in order
    group_specific_terms, \* parent_component.group_specific_terms.values()
    priors,               \* PriorScaler.priors, the registry, in insertion order
    ctor_auto_scale,      \* the auto_scale a newly constructed Prior gets
    pc,                   \* where scale() stands
    idx,                  \* position of the loop over terms
    calls,                \* number of calls of scale() so far
    error,                \* the exception scale() raised, or "none"
    before,               \* every prior and the registry when scale() was called
    log                   \* the stages of this call, and their registry accesses

vars ==
    <<family, link, response, response_mean, response_std, aux, threshold,
      intercept_term, common_terms, group_specific_terms, priors, ctor_auto_scale,
      pc, idx, calls, error, before, log>>

model_vars == <<family, link, response, response_mean, response_std, ctor_auto_scale>>

\* Every prior the scaler may write, and the registry.
Snapshot ==
    [aux |-> aux.prior, threshold |-> threshold.prior,
     intercept |-> intercept_term.prior,
     common |-> [i \in 1..Len(common_terms) |-> common_terms[i].prior],
     group |-> [j \in 1..Len(group_specific_terms) |->
                  <<group_specific_terms[j].prior, group_specific_terms[j].prior_sigma>>],
     priors |-> priors]

Event(stage, term, read, write) ==
    [stage |-> stage, term |-> term, read |-> read, write |-> write]

\* PriorScaler.__init__
InitModel(m) ==
        /\ family = m.family
        /\ link = m.link
        /\ response = m.response
        /\ response_mean = IF m.family \in {"Gaussian", "StudentT"}
                           THEN np_mean(m.response) ELSE Zero
        /\ response_std = IF m.family \in {"Gaussian", "StudentT"}
                          THEN np_std(m.response) ELSE Sqrt(One)
        /\ aux = m.aux
        /\ threshold = m.threshold
        /\ intercept_term = m.intercept
        /\ common_terms = m.common
        /\ group_specific_terms = m.group
        /\ priors = <<>>
        /\ ctor_auto_scale = m.ctor_auto_scale
        /\ pc = "idle"
        /\ idx = 1
        /\ calls = 0
        /\ error = "none"
        /\ before = [aux |-> m.aux.prior, threshold |-> m.threshold.prior,
                     intercept |-> m.intercept.prior,
                     common |-> [i \in 1..Len(m.common) |-> m.common[i].prior],
                     group |-> [j \in 1..Len(m.group) |->
                                  <<m.group[j].prior, m.group[j].prior_sigma>>],
                     priors |-> <<>>]
        /\ log = <<>>

Init ==
    \/ \E fl \in FamilyLinks, c \in CommonSeqs : InitModel(CommonModel(fl, c))
    \/ \E fl \in GroupFamilyLinks, c \in GroupCommonSeqs, g \in GroupSeqs :
          InitModel(GroupModel(fl, c, g))
    \/ \E i \in EligibilityIntercepts, c \in EligibilityCommonSeqs,
          g \in EligibilityGroupSeqs : InitModel(EligibilityModel(i, c, g))
    \/ \E fl \in FamilyLinks, k \in 1..NObs, ctor \in BOOLEAN,
          a \in ComponentOptions, t \in ComponentOptions :
          /\ HasAux(fl[1]) \/ a = DefaultComponent
          /\ HasThreshold(fl[1]) \/ t = DefaultComponent
          /\ InitModel(ResponseModel(fl, k, ctor, a, t))

has_intercept == intercept_term.present

\* The standard deviation multiplier, 2.5
STD == Sqrt(Rat(25, 4))

\* Mutant for C4: the special case forgets the probit link.
IsBinaryLogit == family \in {"Bernoulli", "Binomial"} /\ link = "logit"

\* isinstance(family, (Bernoulli, Binomial)) and family.link["p"].name in [logit, probit]
IsBinaryLogitProbit == family \in {"Bernoulli", "Binomial"} /\ link \in {"logit", "probit"}

\* ------------------------------------------------------------ the registry
\* Mutant for C10: the registry write is lost.
priors_update_lost(reg, name, mu, sigma) == reg

\* self.priors.update({name: {"mu": mu, "sigma": sigma}})
priors_update(reg, name, mu, sigma) ==
    LET e == [name |-> name, mu |-> mu, sigma |-> sigma] IN
    IF \E k \in 1..Len(reg) : reg[k].name = name
    THEN [k \in 1..Len(reg) |-> IF reg[k].name = name THEN e ELSE reg[k]]
    ELSE Append(reg, e)

\* term.data.mean(axis=0)
data_mean_axis0(term) ==
    IF term.ndim = 1 THEN Scalar(np_mean(term.data[1]))
    ELSE Vector([c \in 1..Len(term.data) |-> np_mean(term.data[c])])

\* The squares of the entries of a vector.
SquareAll(xs) == [k \in 1..Len(xs) |-> Square(xs[k])]
SquareMeans(xs) == [k \in 1..Len(xs) |-> RMul(xs[k], xs[k])]

get_intercept_stats ==
    LET mu == response_mean
        sigma == SMul(STD, response_std)
        sigmas == np_hstack([k \in 1..Len(priors) |-> priors[k].sigma])
        x_mean == np_hstack([k \in 1..Len(priors) |->
                               data_mean_axis0(common_terms[priors[k].name])])
    IN IF priors # <<>>
       THEN [mu |-> mu,
             sigma |-> Pow05(RAdd(Square(sigma),
                                  np_dot(SquareAll(sigmas), SquareMeans(x_mean))))]
       ELSE [mu |-> mu, sigma |-> sigma]

\* Mutant for C7: the slope rule without the 2.5 multiplier.
get_slope_sigma_unscaled(x) == SDiv(response_std, np_std(x))

get_slope_sigma(x) == SMul(STD, SDiv(response_std, np_std(x)))

\* ---------------------------------------------------------- scale_response
\* Mutant for C9: the new scale is relative to the prior's current scale.
HalfStudentT_relative(old, std) ==
    [kind |-> "Prior", name |-> "HalfStudentT", auto_scale |-> ctor_auto_scale,
     mu |-> [shape |-> "absent", v |-> <<>>], sigma |-> Scalar(SMul(old.sigma.v[1], std)),
     nu |-> 4, transform |-> "none"]

\* Prior("HalfStudentT", nu=4, sigma=self.response_std)
HalfStudentT(old, std) ==
    [kind |-> "Prior", name |-> "HalfStudentT", auto_scale |-> ctor_auto_scale,
     mu |-> [shape |-> "absent", v |-> <<>>], sigma |-> Scalar(std),
     nu |-> 4, transform |-> "none"]

scale_response ==
    IF /\ family \in {"Gaussian", "StudentT", "VonMises"}
       /\ aux.constant
       /\ hasattr_auto_scale(aux.prior)
       /\ aux.prior.auto_scale
    THEN [aux EXCEPT !.prior = HalfStudentT(aux.prior, response_std)]
    ELSE aux

\* ------------------------------------------------------------ scale_common
all_categoric(term) ==
    \A k \in 1..Len(term.components) : term.components[k] = "categoric"

\* The result of scale_common(term): the exception it raises or "none",
\* whether it reached "save and set prior", and the mu and sigma it computed.
Result(err, done, mu, sigma) == [err |-> err, done |-> done, mu |-> mu, sigma |-> sigma]

Skipped == Result("none", FALSE, Scalar(Zero), Scalar(Sqrt(One)))
Raised(err) == Result(err, FALSE, Scalar(Zero), Scalar(Sqrt(One)))

\* sigma[i] = 1 / np.std(term.data, axis=0): the right side has one entry per
\* column, and numpy refuses to store a sequence of several entries in one
\* element (it stores a sequence of one entry as that entry).
std_axis0_into_element(term) ==
    IF Len(term.data) = 1
    THEN [err |-> "none", value |-> SDiv(Sqrt(One), np_std(term.data[1]))]
    ELSE [err |-> "ValueError", value |-> Sqrt(NaN)]

scale_common(term) ==
    IF name_differs(term.prior, "Normal") THEN Skipped
    ELSE IF term.ndim = 1
    THEN LET sigma ==
               IF IsBinaryLogitProbit
               THEN IF term.kind = "interaction"
                    THEN IF all_categoric(term) THEN Sqrt(One)
                         ELSE SDiv(Sqrt(One), np_std(term.data[1]))
                    ELSE IF term.categorical THEN Sqrt(One)
                    ELSE SDiv(Sqrt(One), np_std(term.data[1]))
               ELSE get_slope_sigma(term.data[1])
         IN Result("none", TRUE, Scalar(Zero), Scalar(sigma))
    ELSE LET n == Len(term.data)
             mu == Vector(np_zeros(n))
         IN IF IsBinaryLogitProbit
            THEN IF term.kind = "interaction"
                 THEN IF all_categoric(term)
                      THEN Result("none", TRUE, mu, Vector([i \in 1..n |-> Sqrt(One)]))
                      ELSE Result("none", TRUE, mu,
                                  Vector([i \in 1..n |->
                                     SDiv(Sqrt(One), np_std(np_sum_axis1(term.data)))]))
                 ELSE IF term.categorical
                 THEN Result("none", TRUE, mu, Vector([i \in 1..n |-> Sqrt(One)]))
                 ELSE IF n > 0 /\ std_axis0_into_element(term).err # "none"
                 THEN Raised(std_axis0_into_element(term).err)
                 ELSE Result("none", TRUE, mu,
                             Vector([i \in 1..n |-> std_axis0_into_element(term).value]))
            ELSE Result("none", TRUE, mu,
                        Vector([i \in 1..n |-> get_slope_sigma(term.data[i])]))

\* --------------------------------------------------------- scale_intercept
scale_intercept(term) ==
    IF name_differs(term.prior, "Normal") THEN [read |-> FALSE, prior |-> term.prior]
    ELSE IF IsBinaryLogitProbit
    THEN [read |-> FALSE,
          prior |-> update(term.prior, Scalar(Zero), Scalar(Sqrt(Rat(9, 4))))]
    ELSE [read |-> TRUE,
          prior |-> update(term.prior, Scalar(get_intercept_stats.mu),
                           Scalar(get_intercept_stats.sigma))]

\* ---------------------------------------------------- scale_group_specific
\* data_as_common.T: the columns of the predictor, a 1-D predictor as one column
data_as_common(term) == term.predictor

scale_group_specific(term) ==
    IF ~hasattr_auto_scale(term.prior_sigma)
    THEN [err |-> "AttributeError", read |-> FALSE, prior_sigma |-> term.prior_sigma]
    ELSE IF name_differs(term.prior_sigma, "HalfNormal")
    THEN [err |-> "none", read |-> FALSE, prior_sigma |-> term.prior_sigma]
    ELSE IF term.kind = "intercept"
    THEN [err |-> "none", read |-> TRUE,
          prior_sigma |-> update_sigma(term.prior_sigma,
                              np_squeeze(Scalar(get_intercept_stats.sigma)))]
    ELSE [err |-> "none", read |-> FALSE,
          prior_sigma |-> update_sigma(term.prior_sigma,
                              np_squeeze(Vector(
                                [i \in 1..Len(data_as_common(term)) |->
                                    get_slope_sigma(data_as_common(term)[i])])))]

\* --------------------------------------------------------- scale_threshold
\* Prior("Normal", mu=mu, sigma=1, transform=...)
ThresholdPrior(mu, transform) ==
    [kind |-> "Prior", name |-> "Normal", auto_scale |-> ctor_auto_scale,
     mu |-> Vector(mu), sigma |-> Scalar(Sqrt(One)), nu |-> 0, transform |-> transform]

response_level_n == np_unique_len(response)

scale_threshold ==
    IF family = "Cumulative"
    THEN IF ~threshold.constant THEN [err |-> "none", prior |-> threshold.prior]
         ELSE IF ~hasattr_auto_scale(threshold.prior)
         THEN [err |-> "AttributeError", prior |-> threshold.prior]
         ELSE IF threshold.prior.auto_scale
         THEN [err |-> "none",
               prior |-> ThresholdPrior(np_round_linspace(response_level_n - 1), "ordered")]
         ELSE [err |-> "none", prior |-> threshold.prior]
    ELSE IF family = "StoppingRatio"
    THEN IF ~threshold.constant THEN [err |-> "none", prior |-> threshold.prior]
         ELSE IF ~hasattr_auto_scale(threshold.prior)
         THEN [err |-> "AttributeError", prior |-> threshold.prior]
         ELSE IF threshold.prior.auto_scale
         THEN [err |-> "none",
               prior |-> ThresholdPrior(np_zeros(response_level_n - 1), "none")]
         ELSE [err |-> "none", prior |-> threshold.prior]
    ELSE [err |-> "none", prior |-> threshold.prior]

\* ------------------------------------------------------------------- scale
AfterResponse == IF Len(common_terms) > 0 THEN "common" ELSE "intercept"
AfterIntercept == IF Len(group_specific_terms) > 0 THEN "group" ELSE "threshold"

\* A call of scale() starts.
Scale ==
    /\ pc \in {"idle", "done", "raised"}
    /\ calls < MaxCalls
    /\ calls' = calls + 1
    /\ pc' = "response"
    /\ idx' = 1
    /\ error' = "none"
    /\ before' = Snapshot
    /\ log' = <<>>
    /\ UNCHANGED <<model_vars, aux, threshold, intercept_term, common_terms,
                   group_specific_terms, priors>>

\* self.scale_response()
ScaleResponse ==
    /\ pc = "response"
    /\ aux' = scale_response
    /\ pc' = AfterResponse
    /\ log' = Append(log, Event("response", 0, FALSE, FALSE))
    /\ UNCHANGED <<model_vars, threshold, intercept_term, common_terms,
                   group_specific_terms, priors, idx, calls, error, before>>

\* One iteration of the loop over the common terms.
ScaleCommonTerms ==
    /\ pc = "common"
    /\ LET term == common_terms[idx]
           eligible == hasattr_auto_scale(term.prior) /\ term.prior.auto_scale
           r == scale_common(term)
           last == idx = Len(common_terms)
       IN IF eligible /\ r.err # "none"
          THEN /\ pc' = "raised"
               /\ error' = r.err
               /\ log' = Append(log, Event("common", idx, FALSE, FALSE))
               /\ UNCHANGED <<common_terms, priors, idx>>
          ELSE /\ IF eligible /\ r.done
                  THEN /\ priors' = priors_update(priors, idx, r.mu, r.sigma)
                       /\ common_terms' =
                            [common_terms EXCEPT ![idx].prior = update(@, r.mu, r.sigma)]
                  ELSE UNCHANGED <<priors, common_terms>>
               /\ log' = Append(log, Event("common", idx, FALSE, eligible /\ r.done))
               /\ pc' = IF last THEN "intercept" ELSE "common"
               /\ idx' = IF last THEN 1 ELSE idx + 1
               /\ UNCHANGED error
    /\ UNCHANGED <<model_vars, aux, threshold, intercept_term, group_specific_terms,
                   calls, before>>

\* The intercept stage.
ScaleIntercept ==
    /\ pc = "intercept"
    /\ IF has_intercept /\ ~hasattr_auto_scale(intercept_term.prior)
       THEN /\ pc' = "raised"
            /\ error' = "AttributeError"
            /\ log' = Append(log, Event("intercept", 0, FALSE, FALSE))
            /\ UNCHANGED intercept_term
       ELSE /\ LET scaled == has_intercept /\ intercept_term.prior.auto_scale
                   r == scale_intercept(intercept_term)
               IN /\ intercept_term' =
                       IF scaled THEN [intercept_term EXCEPT !.prior = r.prior]
                       ELSE intercept_term
                  /\ log' = Append(log, Event("intercept", 0, scaled /\ r.read, FALSE))
            /\ pc' = AfterIntercept
            /\ UNCHANGED error
    /\ UNCHANGED <<model_vars, aux, threshold, common_terms, group_specific_terms,
                   priors, idx, calls, before>>

\* One iteration of the loop over the group-specific terms.
ScaleGroupSpecificTerms ==
    /\ pc = "group"
    /\ LET term == group_specific_terms[idx]
           r == scale_group_specific(term)
           last == idx = Len(group_specific_terms)
       IN IF ~hasattr_auto_scale(term.prior) \/ (term.prior.auto_scale /\ r.err # "none")
          THEN /\ pc' = "raised"
               /\ error' = "AttributeError"
               /\ log' = Append(log, Event("group", idx, FALSE, FALSE))
               /\ UNCHANGED <<group_specific_terms, idx>>
          ELSE /\ group_specific_terms' =
                    IF term.prior.auto_scale
                    THEN [group_specific_terms EXCEPT ![idx].prior_sigma = r.prior_sigma]
                    ELSE group_specific_terms
               /\ log' = Append(log, Event("group", idx,
                                           term.prior.auto_scale /\ r.read, FALSE))
               /\ pc' = IF last THEN "threshold" ELSE "group"
               /\ idx' = IF last THEN 1 ELSE idx + 1
               /\ UNCHANGED error
    /\ UNCHANGED <<model_vars, aux, threshold, intercept_term, common_terms, priors,
                   calls, before>>

\* self.scale_threshold()
ScaleThreshold ==
    /\ pc = "threshold"
    /\ LET r == scale_threshold
       IN /\ threshold' = [threshold EXCEPT !.prior = r.prior]
          /\ pc' = IF r.err = "none" THEN "done" ELSE "raised"
          /\ error' = r.err
    /\ log' = Append(log, Event("threshold", 0, FALSE, FALSE))
    /\ UNCHANGED <<model_vars, aux, intercept_term, common_terms, group_specific_terms,
                   priors, idx, calls, before>>

Next ==
    \/ Scale
    \/ ScaleResponse
    \/ ScaleCommonTerms
    \/ ScaleIntercept
    \/ ScaleGroupSpecificTerms
    \/ ScaleThreshold

Spec == Init /\ [][Next]_vars

TypeOK == pc \in {"idle", "response", "common", "intercept", "group", "threshold",
                  "done", "raised"}

\* ------------------------------------------------------------------ claims
\* The prior is a Prior object whose auto_scale flag is set.
AutoScaleSet(p) == p.kind = "Prior" /\ p.auto_scale

\* The stage ran for the term in this call of scale() and returned.
Completed(stage, term) ==
    \E p \in 1..Len(log) :
        /\ log[p].stage = stage
        /\ log[p].term = term
        /\ ~(pc = "raised" /\ p = Len(log))

\* The registry's entries under a name.
Entries(reg, name) == {reg[k] : k \in {k \in 1..Len(reg) : reg[k].name = name}}

\* a < b for rationals
RLess(a, b) == a.n * b.d < b.n * a.d

\* The sum of f over the finite set S.
RECURSIVE RSum(_, _)
RSum(S, f) ==
    IF S = {} THEN Zero
    ELSE LET x == CHOOSE x \in S : TRUE IN RAdd(f[x], RSum(S \ {x}, f))

\* The common term was eligible when scale() was called: a Prior object with
\* auto_scale set and the Normal family.
EligibleCommon(i) == AutoScaleSet(before.common[i]) /\ before.common[i].name = "Normal"
EligibleIntercept ==
    has_intercept /\ AutoScaleSet(before.intercept) /\ before.intercept.name = "Normal"
EligibleGroup(j) ==
    /\ AutoScaleSet(before.group[j][1])
    /\ before.group[j][2].kind = "Prior"
    /\ before.group[j][2].name = "HalfNormal"

\* C1: a term's prior differs from its value when scale() was called only if
\* its family is the one its routine expects (Normal for the intercept and
\* the common terms, HalfNormal for a group-specific term's sigma) and its
\* auto_scale flag is set; the registry gets or changes an entry only for
\* such a common term.
C1_MutatedOnlyIfEligible ==
    /\ \A i \in 1..Len(common_terms) :
          /\ common_terms[i].prior # before.common[i] => EligibleCommon(i)
          /\ Entries(priors, i) # Entries(before.priors, i) => EligibleCommon(i)
    /\ \A k \in 1..Len(priors) : priors[k].name \in 1..Len(common_terms)
    /\ intercept_term.prior # before.intercept => EligibleIntercept
    /\ \A j \in 1..Len(group_specific_terms) :
          <<group_specific_terms[j].prior, group_specific_terms[j].prior_sigma>>
              # before.group[j] => EligibleGroup(j)

\* C1 witness: a first call returned having scaled one common term and left
\* a Cauchy one (auto_scale set) and a HalfCauchy group term untouched.
C1_Witness ==
    /\ calls = 1
    /\ pc = "done"
    /\ \E i \in 1..Len(common_terms) :
          common_terms[i].prior # before.common[i] /\ Entries(priors, i) # {}
    /\ \E i \in 1..Len(common_terms) :
          /\ before.common[i].name = "Cauchy"
          /\ before.common[i].auto_scale
          /\ common_terms[i].prior = before.common[i]
          /\ Entries(priors, i) = {}
    /\ \E j \in 1..Len(group_specific_terms) :
          /\ before.group[j][2].name = "HalfCauchy"
          /\ before.group[j][1].auto_scale
          /\ group_specific_terms[j].prior_sigma = before.group[j][2]

\* C2: a prior without the auto_scale attribute (or any other mismatch) is
\* skipped silently: scale() never raises an AttributeError on it.
C2_SilentSkip == ~(pc = "raised" /\ error = "AttributeError")

\* The registry's columns: entry k, column c of the term it names.
C3_Columns ==
    UNION {{<<k, c>> : c \in 1..Len(common_terms[priors[k].name].data)} :
             k \in 1..Len(priors)}

C3_Contribution(kc) ==
    LET e == priors[kc[1]]
        m == np_mean(common_terms[e.name].data[kc[2]])
    IN RMul(Square(e.sigma.v[kc[2]]), RMul(m, m))

\* C3: get_intercept_stats returns mu = the response mean; with an empty
\* registry sigma = 2.5 * response_std; otherwise sigma^2 = (2.5 *
\* response_std)^2 + the sum over every column of every registered term of
\* (that column's registry sigma)^2 * (that column's mean)^2.
C3_InterceptStats ==
    LET r == get_intercept_stats
        v == Square(response_std)
    IN /\ IF family \in {"Gaussian", "StudentT"}
          THEN r.mu.n * NObs = SumSeq(response) * r.mu.d
          ELSE r.mu.n = 0
       /\ \A k \in 1..Len(priors) :
             Len(priors[k].sigma.v) = Len(common_terms[priors[k].name].data)
       /\ IF priors = <<>>
          THEN 4 * r.sigma.sq.n * v.d = 25 * v.n * r.sigma.sq.d
          ELSE r.sigma.sq = RAdd(Rat(25 * v.n, 4 * v.d),
                                 RSum(C3_Columns, [kc \in C3_Columns |-> C3_Contribution(kc)]))

\* C3 witness: the intercept was scaled from a registry that holds a
\* single-column term (scalar sigma) and a multi-column one (vector sigma).
C3_Witness ==
    /\ Completed("intercept", 0)
    /\ \E p \in 1..Len(log) : log[p].stage = "intercept" /\ log[p].read
    /\ \E k \in 1..Len(priors) : priors[k].sigma.shape = "scalar"
    /\ \E k \in 1..Len(priors) :
          priors[k].sigma.shape = "vector" /\ Len(priors[k].sigma.v) > 1
    /\ intercept_term.prior.sigma = Scalar(get_intercept_stats.sigma)
    /\ IsFinite(get_intercept_stats.sigma.sq)
    /\ get_intercept_stats.sigma # SMul(STD, response_std)

\* C4: an eligible intercept ends with mu = 0 and sigma = 1.5 under
\* Bernoulli or Binomial with a logit or probit link, whatever the response
\* and the registry; under any other family or link it gets the result of
\* get_intercept_stats.
C4_Intercept ==
    (Completed("intercept", 0) /\ EligibleIntercept) =>
        IF family \in {"Bernoulli", "Binomial"} /\ link \in {"logit", "probit"}
        THEN /\ intercept_term.prior.mu = Scalar(Rat(0, 1))
             /\ intercept_term.prior.sigma = Scalar(Sqrt(Rat(3 * 3, 2 * 2)))
        ELSE /\ intercept_term.prior.mu = Scalar(get_intercept_stats.mu)
             /\ intercept_term.prior.sigma = Scalar(get_intercept_stats.sigma)

\* C4 witness: a probit model whose registry is not empty got (0, 1.5).
C4_Witness ==
    /\ Completed("intercept", 0)
    /\ EligibleIntercept
    /\ link = "probit"
    /\ priors # <<>>
    /\ intercept_term.prior.sigma = Scalar(Sqrt(Rat(9, 4)))
    /\ intercept_term.prior.sigma # before.intercept.sigma

\* The square of the sigma the claim C5 gives column c of a common term.
C5_SigmaSq(term, c) ==
    IF family \in {"Bernoulli", "Binomial"} /\ link \in {"logit", "probit"}
    THEN IF term.kind = "interaction"
         THEN IF \A k \in 1..Len(term.components) : term.components[k] = "categoric"
              THEN One
              ELSE IF Len(term.data) > 1
                   THEN RDiv(One, np_std(np_sum_axis1(term.data)).sq)
                   ELSE RDiv(One, np_std(term.data[c]).sq)
         ELSE IF term.categorical THEN One
         ELSE RDiv(One, np_std(term.data[c]).sq)
    ELSE RDiv(RMul(Rat(25, 4), response_std.sq), np_std(term.data[c]).sq)

\* The mu and sigma the claim C5 gives a common term.
C5_Mu(term) ==
    IF term.ndim = 1 THEN Scalar(Zero)
    ELSE Vector([c \in 1..Len(term.data) |-> Zero])
C5_Sigma(term) ==
    IF term.ndim = 1 THEN Scalar(Sqrt(C5_SigmaSq(term, 1)))
    ELSE Vector([c \in 1..Len(term.data) |-> Sqrt(C5_SigmaSq(term, c))])

\* C5: scale_common on an eligible term with a Normal prior gives mu = 0 and
\* one sigma per column, by the cases of the claim, for single- and
\* multi-column terms alike; the same {mu, sigma} is in the registry under the
\* term's name and in the term's prior.
C5_CommonScaled ==
    \A i \in 1..Len(common_terms) :
        ((\E p \in 1..Len(log) : log[p].stage = "common" /\ log[p].term = i)
           /\ EligibleCommon(i)) =>
            /\ common_terms[i].prior.mu = C5_Mu(common_terms[i])
            /\ common_terms[i].prior.sigma = C5_Sigma(common_terms[i])
            /\ Entries(priors, i) =
                 {[name |-> i, mu |-> C5_Mu(common_terms[i]),
                   sigma |-> C5_Sigma(common_terms[i])]}

\* What C5 says holds wherever scale_common returns instead of raising.
C5_ScaledWhenReturned ==
    \A i \in 1..Len(common_terms) :
        (Completed("common", i) /\ EligibleCommon(i)) =>
            /\ common_terms[i].prior.mu = C5_Mu(common_terms[i])
            /\ common_terms[i].prior.sigma = C5_Sigma(common_terms[i])
            /\ Entries(priors, i) =
                 {[name |-> i, mu |-> C5_Mu(common_terms[i]),
                   sigma |-> C5_Sigma(common_terms[i])]}

\* The number of distinct observed response values.
K == Cardinality({response[i] : i \in 1..Len(response)})

ThresholdEligible ==
    /\ family \in {"Cumulative", "StoppingRatio"}
    /\ threshold.constant
    /\ AutoScaleSet(before.threshold)

\* 100 * q for a rational q with at most two decimals
Hundredths(q) == q.n * (100 \div q.d)

\* mu[i] is the i-th of K-1 evenly spaced values across [-2, 2], rounded to
\* two decimals: a whole number of hundredths within half a hundredth of
\* -2 + (i-1) * 4/(K-2).
C6_RoundedSpacing(mu) ==
    \A i \in 1..Len(mu) :
        /\ 100 % mu[i].d = 0
        /\ K >= 3 =>
             2 * Abs(Hundredths(mu[i]) * (K - 2) - (400 * (i - 1) - 200 * (K - 2)))
                <= K - 2

C6_Increasing(mu) == \A i \in 1..(Len(mu) - 1) : RLess(mu[i], mu[i + 1])

\* What C6 says of every threshold but the endpoints of the Cumulative mu.
C6_Common ==
    /\ ~ThresholdEligible => threshold.prior = before.threshold
    /\ ThresholdEligible =>
         /\ threshold.prior.name = "Normal"
         /\ threshold.prior.sigma = Scalar(Sqrt(Rat(1, 1)))
         /\ threshold.prior.mu.shape = "vector"
         /\ Len(threshold.prior.mu.v) = K - 1
    /\ (ThresholdEligible /\ family = "StoppingRatio") =>
         /\ \A i \in 1..(K - 1) : threshold.prior.mu.v[i] = Rat(0, 1)
         /\ threshold.prior.transform = "none"
    /\ (ThresholdEligible /\ family = "Cumulative") =>
         /\ threshold.prior.transform = "ordered"
         /\ C6_RoundedSpacing(threshold.prior.mu.v)
         /\ C6_Increasing(threshold.prior.mu.v)

C7_SlopeRule(sigma, x) ==
    LET vx == np_std(x).sq
        vy == response_std.sq
    IN IF vx.n = 0 THEN ~IsFinite(sigma.sq)
       ELSE /\ IsFinite(sigma.sq)
            /\ 4 * sigma.sq.n * vx.n * vy.d = 25 * vy.n * vx.d * sigma.sq.d

\* C7: scale_group_specific on an eligible term changes only the sigma of the
\* HalfNormal sub-prior: to get_intercept_stats' sigma for an intercept, and
\* for a slope to the slope-sigma rule per predictor column, a scalar when
\* there is one column and a vector otherwise.
C7_GroupSpecific ==
    \A j \in 1..Len(group_specific_terms) :
        (Completed("group", j) /\ EligibleGroup(j)) =>
            LET term == group_specific_terms[j]
                n == Len(term.predictor)
            IN /\ term.prior = before.group[j][1]
               /\ [term.prior_sigma EXCEPT !.sigma = before.group[j][2].sigma]
                    = before.group[j][2]
               /\ IF term.kind = "intercept"
                  THEN term.prior_sigma.sigma = Scalar(get_intercept_stats.sigma)
                  ELSE /\ term.prior_sigma.sigma.shape
                            = IF n = 1 THEN "scalar" ELSE "vector"
                       /\ Len(term.prior_sigma.sigma.v) = n
                       /\ \A c \in 1..n :
                             C7_SlopeRule(term.prior_sigma.sigma.v[c], term.predictor[c])

\* C7 witness: a two-column group-specific slope got a vector of two finite
\* sigmas in a model whose response_std is not 1.
C7_Witness ==
    \E j \in 1..Len(group_specific_terms) :
        /\ Completed("group", j)
        /\ EligibleGroup(j)
        /\ group_specific_terms[j].kind # "intercept"
        /\ Len(group_specific_terms[j].predictor) = 2
        /\ group_specific_terms[j].prior_sigma.sigma.shape = "vector"
        /\ \A c \in 1..2 : IsFinite(group_specific_terms[j].prior_sigma.sigma.v[c].sq)
        /\ response_std # Sqrt(One)
        /\ group_specific_terms[j].prior_sigma # before.group[j][2]

AllFinite(p) == \A c \in 1..Len(p.v) : IsFinite(p.v[c].sq)

\* C8: no prior and no registry entry ever holds an infinite or NaN scale (a
\* zero-variance column raises an error instead).
C8_NoNonFiniteScale ==
    /\ \A i \in 1..Len(common_terms) : AllFinite(common_terms[i].prior.sigma)
    /\ \A k \in 1..Len(priors) : AllFinite(priors[k].sigma)
    /\ \A j \in 1..Len(group_specific_terms) :
          group_specific_terms[j].prior_sigma.kind = "Prior" =>
              AllFinite(group_specific_terms[j].prior_sigma.sigma)
    /\ AllFinite(intercept_term.prior.sigma)

\* C9: a second call of scale() on the same PriorScaler, the model unchanged,
\* leaves every prior and the registry as the first call left them.
C9_Idempotent ==
    (calls >= 2 /\ pc \in {"done", "raised"}) => Snapshot = before

\* C9 witness: a second call returned, and the first one had replaced the
\* auxiliary prior, filled the registry and scaled the intercept.
C9_Witness ==
    /\ calls = 2
    /\ pc = "done"
    /\ aux.prior.nu = 4
    /\ aux.prior.auto_scale
    /\ priors # <<>>
    /\ family = "Gaussian"
    /\ intercept_term.prior.sigma # Scalar(Sqrt(Rat(49, 1)))

StageRank(stage) ==
    CASE stage = "response" -> 1
      [] stage = "common" -> 2
      [] stage = "intercept" -> 3
      [] stage = "group" -> 4
      [] stage = "threshold" -> 5

C10_Eligible == {i \in 1..Len(common_terms) : EligibleCommon(i)}

\* The variance the eligible common terms add to the intercept, summed over
\* the set of terms: no order of iteration enters.
C10_TermVariance(i) ==
    LET term == common_terms[i]
        cols == 1..Len(term.data)
    IN RSum(cols, [c \in cols |->
                     RMul(Square(term.prior.sigma.v[c]),
                          RMul(np_mean(term.data[c]), np_mean(term.data[c])))])

\* C10: the stages of a call run in the order auxiliary, common terms (in
\* their order), intercept, group-specific terms, threshold; no registry
\* write follows a registry read; when the registry is read it holds an entry
\* for every eligible common term; and the intercept's sigma is the
\* order-free root-sum-square over the eligible common terms.
C10_Order ==
    /\ \A p \in 1..Len(log) : \A q \in 1..Len(log) :
          p < q =>
            /\ StageRank(log[p].stage) <= StageRank(log[q].stage)
            /\ log[p].stage = log[q].stage => log[p].term < log[q].term
            /\ ~(log[p].read /\ log[q].write)
    /\ pc = "done" =>
          /\ {log[p].stage : p \in 1..Len(log)}
               = {"response", "intercept", "threshold"}
                   \cup (IF common_terms = <<>> THEN {} ELSE {"common"})
                   \cup (IF group_specific_terms = <<>> THEN {} ELSE {"group"})
          /\ Len(log) = 3 + Len(common_terms) + Len(group_specific_terms)
    /\ (\E p \in 1..Len(log) : log[p].read) =>
          \A i \in C10_Eligible : Entries(priors, i) # {}
    /\ (\E p \in 1..Len(log) : log[p].stage = "intercept" /\ log[p].read) =>
          intercept_term.prior.sigma.v[1].sq =
              RAdd(RMul(Rat(25, 4), response_std.sq),
                   RSum(C10_Eligible, [i \in C10_Eligible |-> C10_TermVariance(i)]))

\* C10 witness: in a first call the intercept read a registry that two
\* eligible common terms had filled, and the call ran to its end.
C10_Witness ==
    /\ calls = 1
    /\ pc = "done"
    /\ \E p \in 1..Len(log) : log[p].stage = "intercept" /\ log[p].read
    /\ Cardinality(C10_Eligible) >= 2
    /\ Len(priors) >= 2
    /\ common_terms[1].data # common_terms[2].data
====
